---- MODULE Spec2Model ----
(***************************************************************************)
(* Model of skills/tools/bilibili-analyzer/scripts/prepare.py:             *)
(* main() runs download_video (yt-dlp) and then extract_frames (ffmpeg)    *)
(* against the files <output>/video.mp4 and <output>/images/.  The two     *)
(* external tools are the environment: their exit status and what they     *)
(* leave on disk are chosen nondeterministically.  The script may be run   *)
(* again against the same output directory; the files persist.             *)
(***************************************************************************)
EXTENDS Integers, Sequences, FiniteSets, TLC

\* ---------------------------------------------------------------- bounds
\* number of consecutive runs of the script against one output directory
MaxRuns == 2
\* length of the video in seconds; ffmpeg's fps filter yields Duration*fps frames
Duration == 2

\* --------------------------------------------------------- file names
FramePrefix == <<"f", "r", "a", "m", "e", "_">>
JpgSuffix == <<".", "j", "p", "g">>
DigitChar == <<"0", "1", "2", "3", "4", "5", "6", "7", "8", "9">>

\* decimal digits of n >= 0, most significant first
RECURSIVE Dec(_)
Dec(n) == IF n < 10 THEN <<DigitChar[n + 1]>>
          ELSE Dec(n \div 10) \o <<DigitChar[(n % 10) + 1]>>

\* printf zero padding to a minimum width
RECURSIVE ZeroPad(_, _)
ZeroPad(s, w) == IF Len(s) >= w THEN s ELSE ZeroPad(<<"0">> \o s, w)

\* "frame_%04d.jpg" % n, the name ffmpeg's image2 muxer gives frame n
output_pattern(n) == FramePrefix \o ZeroPad(Dec(n), 4) \o JpgSuffix

\* str.startswith / str.endswith
startswith(s, p) == Len(s) >= Len(p) /\ SubSeq(s, 1, Len(p)) = p
endswith(s, p) == Len(s) >= Len(p) /\ SubSeq(s, Len(s) - Len(p) + 1, Len(s)) = p

\* len([f for f in os.listdir(output_dir)
\*      if f.startswith("frame_") and f.endswith(".jpg")])
CountFrames(listing) ==
    Cardinality({f \in listing : startswith(f, FramePrefix) /\ endswith(f, JpgSuffix)})

\* files that may already lie in <output>/images/ before the first run
StaleFrame == output_pattern(Duration + 1)
CoverJpg == <<"f", "r", "a", "m", "e", "_", "x", ".", "j", "p", "g">>
NotesTxt == <<"n", ".", "t", "x", "t">>
PriorNames == {StaleFrame, CoverJpg, NotesTxt}

\* ------------------------------------------------------- command line
EmptyUrl == ""
SampleUrl == "https://www.bilibili.com/video/BV1xx411c7mD"
Urls == {EmptyUrl, SampleUrl}
\* --fps values, in halves of a frame per second: 0.5 and the default 1.0
FpsHalves == {1, 2}
\* frames the fps filter emits for the whole video
FramesFor(f) == (Duration * f) \div 2

\* ------------------------------------------------------- tool locator
None == << >>
YtDlpDirect == <<"yt-dlp">>
YtDlpModule == <<"sys.executable", "-m", "yt_dlp">>
ProbeOutcomes == {"exit0", "nonzero", "timeout", "raise"}

\* find_yt_dlp with the probe's exit status left unread: the module form is
\* returned whenever the probe completes
find_yt_dlp_anystatus(onPath, probe) ==
    IF onPath
    THEN [cmd |-> YtDlpDirect, probed |-> FALSE, raised |-> FALSE]
    ELSE IF probe \in {"exit0", "nonzero"}
         THEN [cmd |-> YtDlpModule, probed |-> TRUE, raised |-> FALSE]
         ELSE [cmd |-> None, probed |-> TRUE, raised |-> FALSE]

\* find_yt_dlp: onPath is shutil.which("yt-dlp"), probe is what the
\* "--version" subprocess does if it is run.
find_yt_dlp(onPath, probe) ==
    IF onPath
    THEN [cmd |-> YtDlpDirect, probed |-> FALSE, raised |-> FALSE]
    ELSE IF probe = "exit0"
         THEN [cmd |-> YtDlpModule, probed |-> TRUE, raised |-> FALSE]
         ELSE [cmd |-> None, probed |-> TRUE, raised |-> FALSE]

common_paths == <<"C:\\ffmpeg\\bin\\ffmpeg.exe",
                  "C:\\Program Files\\ffmpeg\\bin\\ffmpeg.exe",
                  "C:\\tools\\ffmpeg\\bin\\ffmpeg.exe">>

\* find_ffmpeg: onPath is shutil.which("ffmpeg"), present the set of
\* indices of common_paths for which os.path.exists holds.
find_ffmpeg(onPath, present) ==
    IF onPath THEN <<"ffmpeg">>
    ELSE IF present = {} THEN None
         ELSE <<common_paths[CHOOSE i \in present : \A j \in present : i <= j]>>


\* ---------------------------------------------------------------- state
VARIABLES
    pc,           \* position of main(): "start" "acquire" "dl_run" "sample" "ff_run" "summary" "exit"
    run,          \* how many runs of the script have been started
    url, video_only, frames_only, fps,   \* args of the current run
    video,        \* os.path.exists(<output>/video.mp4)
    images,       \* <output>/images/: file name -> run that wrote it (0: there before)
    yt_dlp_cmd,   \* download_video's local
    ffmpeg_cmd,   \* extract_frames' local
    locate,       \* what find_yt_dlp saw and did in this run
    videoAtStart, \* video when this run started
    ytCmds,       \* downloader command lines run for the download, this run
    ffCmds,       \* ffmpeg command lines run, this run
    dlResult,     \* download_video's return value: "none" (not called) "ok" "fail"
    exResult,     \* extract_frames' return value, likewise
    frame_count,  \* the count extract_frames printed, -1 if none
    produced,     \* run -> names ffmpeg wrote in that run's successful extraction
    exitStatus,   \* -1 while running
    summary       \* "[OK] Done!" was printed

args == <<url, video_only, frames_only, fps>>
disk == <<video, images>>
dlVars == <<yt_dlp_cmd, locate, ytCmds, dlResult>>
exVars == <<ffmpeg_cmd, ffCmds, exResult, frame_count, produced>>
vars == <<pc, run, args, disk, dlVars, exVars, videoAtStart, exitStatus, summary>>

NoLocate == [onPath |-> FALSE, probe |-> "none", cmd |-> None,
             probed |-> FALSE, raised |-> FALSE, called |-> FALSE]

Init ==
    /\ pc = "start"
    /\ run = 0
    /\ url = SampleUrl /\ video_only = FALSE /\ frames_only = FALSE /\ fps = 2
    /\ video \in BOOLEAN
    /\ \E prior \in SUBSET PriorNames : images = [f \in prior |-> 0]
    /\ yt_dlp_cmd = None /\ ffmpeg_cmd = None
    /\ locate = NoLocate
    /\ videoAtStart = video
    /\ ytCmds = << >> /\ ffCmds = << >>
    /\ dlResult = "none" /\ exResult = "none"
    /\ frame_count = -1
    /\ produced = [r \in 1..MaxRuns |-> {}]
    /\ exitStatus = -1
    /\ summary = FALSE

\* sys.exit(code)
Exit(code) == pc' = "exit" /\ exitStatus' = code

\* main, lines 159-192: parse the command line, derive the paths, print the banner.
\* A later run starts once the previous one has exited; the disk is kept.
main_parse ==
    /\ pc \in {"start", "exit"}
    /\ run < MaxRuns
    /\ run' = run + 1
    /\ url' \in Urls
    /\ video_only' \in BOOLEAN
    /\ frames_only' \in BOOLEAN
    /\ fps' \in FpsHalves
    /\ pc' = "acquire"
    /\ videoAtStart' = video
    /\ yt_dlp_cmd' = None /\ ffmpeg_cmd' = None
    /\ locate' = NoLocate
    /\ ytCmds' = << >> /\ ffCmds' = << >>
    /\ dlResult' = "none" /\ exResult' = "none"
    /\ frame_count' = -1
    /\ exitStatus' = -1
    /\ summary' = FALSE
    /\ UNCHANGED <<disk, produced>>

\* main, line 195: is download_video called?
main_acquire_gate(fo) == ~fo

\* main, line 195 with --frames-only: the download is skipped
main_skip_download ==
    /\ pc = "acquire"
    /\ ~main_acquire_gate(frames_only)
    /\ pc' = "sample"
    /\ UNCHANGED <<run, args, disk, dlVars, exVars, videoAtStart, exitStatus, summary>>

\* download_video, lines 77-84 (and main, 196-197): locate the downloader
download_video_locate ==
    /\ pc = "acquire"
    /\ main_acquire_gate(frames_only)
    /\ \E onPath \in BOOLEAN, probe \in ProbeOutcomes :
         LET r == find_yt_dlp(onPath, probe) IN
         /\ locate' = [onPath |-> onPath, probe |-> probe, cmd |-> r.cmd,
                       probed |-> r.probed, raised |-> r.raised, called |-> TRUE]
         /\ yt_dlp_cmd' = r.cmd
         /\ IF r.raised
            THEN \* an exception out of find_yt_dlp is caught nowhere: traceback, status 1
                 /\ Exit(1) /\ dlResult' = "none"
            ELSE IF r.cmd = None
                 THEN /\ dlResult' = "fail" /\ Exit(1)
                 ELSE /\ dlResult' = "none" /\ pc' = "dl_run" /\ UNCHANGED exitStatus
    /\ UNCHANGED <<run, args, disk, ytCmds, exVars, videoAtStart, summary>>

\* download_video, lines 86-91
download_cmd(tool, u) ==
    tool \o <<"-f", "bestvideo[ext=mp4]+bestaudio[ext=m4a]/best[ext=mp4]/best",
              "-o", "video.mp4", "--no-warnings", u>>

\* download_video, lines 93-103: True exactly when subprocess.run(check=True) returns
download_video_result(outcome) == IF outcome = "exit0" THEN "ok" ELSE "fail"

\* main going on to the extraction whatever download_video returned
main_after_download_unchecked(res) == "sample"

\* main, lines 196-197: what follows download_video's return value
main_after_download(res) == IF res = "ok" THEN "sample" ELSE "exit"

\* download_video, lines 93-103 (and main, 196-197): run the downloader.
\* It exits 0, exits non-zero, or cannot be started; whatever its status it
\* may or may not leave a file at the output path.
download_video_run ==
    /\ pc = "dl_run"
    /\ \E outcome \in {"exit0", "nonzero", "oserror"}, wrote \in BOOLEAN :
         /\ ytCmds' = Append(ytCmds, download_cmd(yt_dlp_cmd, url))
         /\ video' = (video \/ (wrote /\ outcome # "oserror"))
         /\ dlResult' = download_video_result(outcome)
         /\ IF main_after_download(dlResult') = "sample"
            THEN pc' = "sample" /\ UNCHANGED exitStatus
            ELSE Exit(1)
    /\ UNCHANGED <<run, args, images, yt_dlp_cmd, locate, exVars, videoAtStart, summary>>

\* main without the os.path.exists test of lines 201-203
main_sample_gate_unchecked(vo, exists) == IF vo THEN "skip" ELSE "extract"

\* main, lines 200-205: "skip" with --video-only, "missing" when the video
\* file is not there, otherwise "extract"
main_sample_gate(vo, exists) ==
    IF vo THEN "skip" ELSE IF ~exists THEN "missing" ELSE "extract"

\* main, line 200 with --video-only: the extraction is skipped
main_skip_extract ==
    /\ pc = "sample"
    /\ main_sample_gate(video_only, video) = "skip"
    /\ pc' = "summary"
    /\ UNCHANGED <<run, args, disk, dlVars, exVars, videoAtStart, exitStatus, summary>>

\* main, lines 201-203: no video file, "[ERROR] Video file not found", exit 1
main_video_missing ==
    /\ pc = "sample"
    /\ main_sample_gate(video_only, video) = "missing"
    /\ Exit(1)
    /\ UNCHANGED <<run, args, disk, dlVars, exVars, videoAtStart, summary>>

\* extract_frames, lines 117-139 (and main, 205-206): locate ffmpeg, make the
\* images directory, build the command line
extract_frames_locate ==
    /\ pc = "sample"
    /\ main_sample_gate(video_only, video) = "extract"
    /\ \E onPath \in BOOLEAN, present \in SUBSET (1..Len(common_paths)) :
         /\ ffmpeg_cmd' = find_ffmpeg(onPath, present)
         /\ IF ffmpeg_cmd' = None
            THEN exResult' = "fail" /\ Exit(1)
            ELSE exResult' = "started" /\ pc' = "ff_run" /\ UNCHANGED exitStatus
    /\ UNCHANGED <<run, args, disk, dlVars, ffCmds, frame_count, produced,
                   videoAtStart, summary>>

\* extract_frames, lines 132-139
extract_cmd(tool, f) ==
    tool \o <<"-i", "video.mp4", "-vf", <<"fps=", f>>, "-q:v", "2", "-y",
              "images/frame_%04d.jpg">>

\* what ffmpeg -y leaves in the directory after writing frames 1..k in run r:
\* a file of the same name is replaced, every other file stays
ffmpeg_write(dir, k, r) ==
    LET new == {output_pattern(i) : i \in 1..k}
    IN [f \in (DOMAIN dir) \cup new |-> IF f \in new THEN r ELSE dir[f]]

\* extract_frames, lines 141-155: True exactly when subprocess.run(check=True) returns
extract_frames_result(outcome) == IF outcome = "exit0" THEN "ok" ELSE "fail"

\* main going on to the summary whatever extract_frames returned
main_after_extract_unchecked(res) == "summary"

\* main, lines 205-206: what follows extract_frames' return value
main_after_extract(res) == IF res = "ok" THEN "summary" ELSE "exit"

\* extract_frames, lines 141-155 (and main, 205-206): run ffmpeg, count the
\* frames.  ffmpeg exits 0 with every frame written, exits non-zero with some
\* of them written, or cannot be started.
extract_frames_run ==
    /\ pc = "ff_run"
    /\ ffCmds' = Append(ffCmds, extract_cmd(ffmpeg_cmd, fps))
    /\ \E outcome \in {"exit0", "nonzero", "oserror"} :
         /\ exResult' = extract_frames_result(outcome)
         /\ \E k \in 0..FramesFor(fps) :
              /\ outcome = "exit0" => k = FramesFor(fps)
              /\ outcome = "oserror" => k = 0
              /\ images' = ffmpeg_write(images, k, run)
              /\ IF exResult' = "ok"
                 THEN /\ frame_count' = CountFrames(DOMAIN images')
                      /\ produced' = [produced EXCEPT ![run] = {output_pattern(i) : i \in 1..k}]
                 ELSE UNCHANGED <<frame_count, produced>>
         /\ IF main_after_extract(exResult') = "summary"
            THEN pc' = "summary" /\ UNCHANGED exitStatus
            ELSE Exit(1)
    /\ UNCHANGED <<run, args, video, dlVars, ffmpeg_cmd, videoAtStart, summary>>

\* main, lines 208-213: the final summary; falling off main() is exit status 0
main_summary ==
    /\ pc = "summary"
    /\ summary' = TRUE
    /\ Exit(0)
    /\ UNCHANGED <<run, args, disk, dlVars, exVars, videoAtStart>>

Next ==
    \/ main_parse
    \/ main_skip_download
    \/ download_video_locate
    \/ download_video_run
    \/ main_skip_extract
    \/ main_video_missing
    \/ extract_frames_locate
    \/ extract_frames_run
    \/ main_summary

Spec == Init /\ [][Next]_vars

TypeOK ==
    /\ pc \in {"start", "acquire", "dl_run", "sample", "ff_run", "summary", "exit"}
    /\ run \in 0..MaxRuns
    /\ url \in Urls /\ video_only \in BOOLEAN /\ frames_only \in BOOLEAN
    /\ fps \in FpsHalves
    /\ video \in BOOLEAN /\ videoAtStart \in BOOLEAN
    /\ \A f \in DOMAIN images : images[f] \in 0..MaxRuns
    /\ dlResult \in {"none", "ok", "fail"}
    /\ exResult \in {"none", "started", "ok", "fail"}
    /\ exitStatus \in {-1, 0, 1}
    /\ summary \in BOOLEAN

\* ================================================================ claims

\* the run has ended
Exited == run > 0 /\ pc = "exit"

\* a name of the form frame_NNNN.jpg: "frame_", four decimal digits, ".jpg"
IsFrameNNNN(f) ==
    /\ Len(f) = Len(FramePrefix) + 4 + Len(JpgSuffix)
    /\ startswith(f, FramePrefix)
    /\ endswith(f, JpgSuffix)
    /\ \A i \in 1..4 : \E d \in 1..10 : f[Len(FramePrefix) + i] = DigitChar[d]

\* C1: extract_frames is never entered, and ffmpeg never started, in a state
\* where <output>/video.mp4 does not exist -- for every flag combination and
\* every outcome of the download.
C1_SampleOnlyWithVideo ==
    [][ /\ (exResult = "none" /\ exResult' # "none") => video
        /\ (Len(ffCmds') > Len(ffCmds)) => video ]_vars

\* C1 witness: ffmpeg is about to run on a video this very run downloaded
C1_Witness == pc = "ff_run" /\ ~videoAtStart /\ dlResult = "ok" /\ video

\* C2: with --frames-only and no video file at the start of the run, the run
\* exits non-zero and invokes neither ffmpeg nor the downloader.
C2_FramesOnlyWithoutVideo ==
    (run > 0 /\ frames_only /\ ~videoAtStart) =>
        /\ ffCmds = << >>
        /\ ytCmds = << >>
        /\ pc = "exit" => exitStatus # 0

\* C3: with --video-only, download_video is called and extract_frames never is.
C3_VideoOnly ==
    (run > 0 /\ video_only) =>
        /\ exResult = "none"
        /\ ffCmds = << >>
        /\ pc \in {"sample", "summary", "exit"} => locate.called

\* C4: a failed step ends the run at once with a non-zero status; nothing is
\* started after a failed download (no extraction), no summary follows a
\* failed extraction, and neither tool is run twice for its work in one run.
C4_FailureIsTerminal ==
    /\ dlResult = "fail" =>
         /\ pc = "exit" /\ exitStatus = 1
         /\ exResult = "none" /\ ffCmds = << >>
         /\ ~summary
    /\ exResult = "fail" =>
         /\ pc = "exit" /\ exitStatus = 1
         /\ ~summary
    /\ Len(ytCmds) <= 1
    /\ Len(ffCmds) <= 1

\* C4 witness: the downloader was run and exited non-zero
C4_Witness == dlResult = "fail" /\ Len(ytCmds) = 1 /\ pc = "exit"

\* the steps the flags ask for all returned success
RequestedStepsOk ==
    /\ ~frames_only => dlResult = "ok"
    /\ ~video_only => exResult = "ok"

C6_DownloadedFileExists == dlResult = "ok" => video

\* C7: after a successful extract_frames the reported count is the number of
\* files named frame_NNNN.jpg in the images directory.
C7_CountMatchesPattern ==
    exResult = "ok" =>
        frame_count = Cardinality({f \in DOMAIN images : IsFrameNNNN(f)})

\* C8: when extract_frames succeeds again on the same video and directory, the
\* frame files written by the script that lie in the directory are exactly
\* those the latest run produced: none is left over from an earlier run.
C8_RerunReplacesFrames ==
    (/\ exResult = "ok"
     /\ frames_only
     /\ \E r \in 1..(run - 1) : produced[r] # {}) =>
        {f \in DOMAIN images : IsFrameNNNN(f) /\ images[f] >= 1} = produced[run]

\* C9: the downloader is never run with the empty string as its URL, and a
\* run given the empty URL fails without starting the download.
C9_UrlNonEmpty ==
    /\ \A i \in 1..Len(ytCmds) : ytCmds[i][Len(ytCmds[i])] # EmptyUrl
    /\ (run > 0 /\ url = EmptyUrl) => ytCmds = << >> /\ (pc = "exit" => exitStatus = 1)

\* C10: find_yt_dlp returns the direct command without probing when yt-dlp is
\* on the search path; otherwise it returns the module form exactly when the
\* version probe exits 0, and None when the probe exits non-zero, times out
\* or raises; no exception leaves it.
C10_FindYtDlp ==
    locate.called =>
        /\ ~locate.raised
        /\ locate.onPath => (locate.cmd = YtDlpDirect /\ ~locate.probed)
        /\ ~locate.onPath =>
             /\ locate.probed
             /\ locate.cmd = YtDlpModule <=> locate.probe = "exit0"
             /\ locate.probe # "exit0" => locate.cmd = None

\* C10 witness: not on the path and the probe timed out, so nothing was found
C10_Witness ==
    /\ locate.called /\ ~locate.onPath /\ locate.probe = "timeout"
    /\ locate.cmd = None /\ dlResult = "fail"

====
